---- MODULE Spec2Model ----
(***************************************************************************)
(* Model of proxy_app.py: the /api/proxy relay.  One global lock           *)
(* (api_lock) serialises every request handler, handle_gemini_request      *)
(* spaces calls with last_gemini_request_time, and the two transform_*     *)
(* functions translate between the Gemini and the OpenAI wire formats.     *)
(*                                                                         *)
(* JSON objects are TLA+ functions with string domains (a key is present   *)
(* iff it is in the DOMAIN), JSON arrays are sequences.  A Python call     *)
(* that can raise yields a record whose field "raised" names the           *)
(* exception type ("none" when the call returned, then "value" is set).    *)
(***************************************************************************)
EXTENDS Integers, Sequences, FiniteSets, TLC

VARIABLES
    pc,                        \* per worker thread: position in proxy_handler
    api_lock,                  \* holder of threading.Lock(), NoHolder if free
    last_gemini_request_time,  \* module global, line 24
    now,                       \* time.monotonic(), in seconds
    env,                       \* os.environ: the three provider keys
    req,                       \* per thread: the flask request being handled
    wake,                      \* per thread: instant time.sleep() may return
    got,                       \* per thread: what requests.post() returned or raised
    response,                  \* per thread: the return value of proxy_handler
    in_flight,                 \* outbound requests.post() calls that have not returned
    calls,                     \* per thread: outbound calls started for its request
    gemini_last_start,         \* start instant of the latest outbound Gemini call
    tr_fn,                     \* translator harness: function under test
    tr_in,                     \* translator harness: its argument
    tr_out                     \* translator harness: its result

vars == <<pc, api_lock, last_gemini_request_time, now, env, req, wake, got, response,
          in_flight, calls, gemini_last_start, tr_fn, tr_in, tr_out>>

mainvars == <<pc, api_lock, last_gemini_request_time, now, env, req, wake, got, response,
              in_flight, calls, gemini_last_start>>

trvars == <<tr_fn, tr_in, tr_out>>

(***************************************************************************)
(* Bounds                                                                  *)
(***************************************************************************)
MaxTurns == 2
MaxChoices == 1

(***************************************************************************)
(* Python helpers                                                          *)
(***************************************************************************)
EmptyDict == [k \in {} |-> k]

\* dict.get(key, default)
dict_get(d, key, default) == IF key \in DOMAIN d THEN d[key] ELSE default

Returned(v) == [raised |-> "none", value |-> v]

Raised(e) == [raised |-> e]

RaisedWith(e, text) == [raised |-> e, str |-> text]

\* str(e)
exc_str(exc) == dict_get(exc, "str", <<exc.raised>>)

(***************************************************************************)
(* transform_to_openai_format, lines 26-33                                 *)
(***************************************************************************)
\* line 30: "assistant" if message.get("role") == "model" else "user"
openai_role_swapped(message) ==
    IF "role" \in DOMAIN message /\ message["role"] = "model" THEN "user" ELSE "assistant"

openai_role(message) ==
    IF "role" \in DOMAIN message /\ message["role"] = "model" THEN "assistant" ELSE "user"

\* line 31: message.get("parts", [{}])[0].get("text", ""); [0] raises on an empty list
openai_text(message) ==
    LET parts == dict_get(message, "parts", <<EmptyDict>>)
    IN  IF Len(parts) = 0 THEN Raised("IndexError")
        ELSE Returned(dict_get(parts[1], "text", ""))

\* the for loop of lines 29-32, from the i-th turn on, messages being the list built so far
RECURSIVE openai_loop(_, _, _)
openai_loop(contents, i, messages) ==
    IF i > Len(contents) THEN Returned(messages)
    ELSE LET text == openai_text(contents[i])
         IN  IF text.raised # "none" THEN text
             ELSE openai_loop(contents, i + 1,
                      Append(messages, [role |-> openai_role(contents[i]),
                                        content |-> text.value]))

transform_to_openai_format(client_data) ==
    openai_loop(dict_get(client_data, "contents", <<>>), 1, <<>>)

(***************************************************************************)
(* transform_to_gemini_format, lines 35-43                                 *)
(***************************************************************************)
\* openai_response_json.get("choices", [{}])[0]
first_choice(openai_response_json) ==
    LET choices == dict_get(openai_response_json, "choices", <<EmptyDict>>)
    IN  IF Len(choices) = 0 THEN Raised("IndexError") ELSE Returned(choices[1])

transform_to_gemini_format(openai_response_json) ==
    LET choice == first_choice(openai_response_json)
    IN  IF choice.raised # "none" THEN choice
        ELSE LET generated_text ==
                     dict_get(dict_get(choice.value, "message", EmptyDict), "content", "")
             IN  Returned([candidates |-> <<
                     [content |-> [role |-> "model",
                                   parts |-> <<[text |-> generated_text]>>],
                      finishReason |-> dict_get(choice.value, "finish_reason", "STOP")] >>])

(***************************************************************************)
(* Translator inputs                                                       *)
(***************************************************************************)
SeqsUpTo(S, n) == UNION {[1..k -> S] : k \in 0..n}

PartsInputs == {<<>>, <<EmptyDict>>, <<[text |-> "hi"]>>, <<[text |-> "a"], [text |-> "b"]>>}

RoleInputs == {"user", "model", "system"}

TurnInputs ==
    {EmptyDict}
    \cup {[role |-> r] : r \in RoleInputs}
    \cup {[parts |-> p] : p \in PartsInputs}
    \cup {[role |-> r, parts |-> p] : r \in RoleInputs, p \in PartsInputs}

ClientDataInputs ==
    {EmptyDict} \cup {[contents |-> c] : c \in SeqsUpTo(TurnInputs, MaxTurns)}

MessageInputs == {EmptyDict, [content |-> "hello"], [content |-> ""]}

FinishInputs == {"stop", "length"}

ChoiceInputs ==
    {EmptyDict}
    \cup {[message |-> m] : m \in MessageInputs}
    \cup {[finish_reason |-> f] : f \in FinishInputs}
    \cup {[message |-> m, finish_reason |-> f] : m \in MessageInputs, f \in FinishInputs}

OpenAIResponseInputs ==
    {EmptyDict, [id |-> "cmpl-1"]}
    \cup {[choices |-> c] : c \in SeqsUpTo(ChoiceInputs, MaxChoices)}

NotApplied == [raised |-> "pending"]

(***************************************************************************)
(* Translator harness: Init draws one argument, one action applies the     *)
(* function to it.                                                         *)
(***************************************************************************)
ApplyToOpenAI ==
    /\ tr_fn = "transform_to_openai_format"
    /\ tr_out = NotApplied
    /\ tr_out' = transform_to_openai_format(tr_in)
    /\ UNCHANGED <<tr_fn, tr_in>>
    /\ UNCHANGED mainvars

ApplyToGemini ==
    /\ tr_fn = "transform_to_gemini_format"
    /\ tr_out = NotApplied
    /\ tr_out' = transform_to_gemini_format(tr_in)
    /\ UNCHANGED <<tr_fn, tr_in>>
    /\ UNCHANGED mainvars

(***************************************************************************)
(* The server                                                              *)
(***************************************************************************)
NumThreads == 2
MaxTime == 23
GEMINI_REQUEST_DELAY == 11

Threads == 1..NumThreads
NoHolder == 0

\* str.lower(), strings being sequences of characters
lower_table == [A |-> "a", B |-> "b", C |-> "c", D |-> "d", E |-> "e", F |-> "f", G |-> "g", H |-> "h", I |-> "i", J |-> "j", K |-> "k", L |-> "l", M |-> "m", N |-> "n", O |-> "o", P |-> "p", Q |-> "q", R |-> "r", S |-> "s", T |-> "t", U |-> "u", V |-> "v", W |-> "w", X |-> "x", Y |-> "y", Z |-> "z"]

lower_char(c) == IF c \in DOMAIN lower_table THEN lower_table[c] ELSE c

str_lower_identity(s) == s

str_lower(s) == [i \in 1..Len(s) |-> lower_char(s[i])]

s_gemini == <<"g", "e", "m", "i", "n", "i">>
s_openrouter == <<"o", "p", "e", "n", "r", "o", "u", "t", "e", "r">>
s_llmost == <<"l", "l", "m", "o", "s", "t">>
s_unknown_llm == <<"u", "n", "k", "n", "o", "w", "n", "-", "l", "l", "m">>

\* dict.pop(key, default): the value, and the dict that is left
dict_pop_value(d, key, default) == dict_get(d, key, default)

dict_pop_rest(d, key) == [k \in DOMAIN d \ {key} |-> d[k]]

\* str.replace('Bearer ', ''), a header value being a sequence of text pieces
strip_bearer(header) == SelectSeq(header, LAMBDA piece : piece # "Bearer ")

EnvKeys == {"GEMINI_API_KEY", "OPENROUTER_API_KEY", "LLMOST_API_KEY"}

\* os.getenv(name): the empty sequence stands for None (unset)
getenv(name) == env[name]

Response(status, body) == [status |-> status, body |-> body]

ErrorBody(message) == [error |-> [message |-> message]]

NoResponse == Response(0, EmptyDict)
NoRequest == [body |-> [kind |-> "none"], Authorization |-> <<>>]

(***************************************************************************)
(* Inputs of the server: request bodies, Authorization headers, upstream   *)
(* answers, environments                                                   *)
(***************************************************************************)
ProviderInputs ==
    {s_gemini, <<"G", "e", "m", "i", "n", "i">>, s_openrouter,
     <<"L", "L", "M", "o", "s", "t">>, s_unknown_llm}

ContentsInputs ==
    {<<[role |-> "user", parts |-> <<[text |-> "hi"]>>]>>,
     <<[role |-> "model", parts |-> <<>>]>>}

ObjectInputs ==
    {[contents |-> c] : c \in ContentsInputs}
    \cup {[provider |-> p, contents |-> c] : p \in ProviderInputs, c \in ContentsInputs}
    \cup {[provider |-> p, modelName |-> "gemini-pro", contents |-> c] :
              p \in {s_gemini, s_openrouter}, c \in ContentsInputs}

\* kind: "malformed" (not JSON), "absent" (no body), "falsy" (null, {}, [], 0, ""),
\* "nondict" (a non-empty JSON array, string or number), "object"
BodyInputs ==
    {[kind |-> k] : k \in {"malformed", "absent", "falsy", "nondict"}}
    \cup {[kind |-> "object", json |-> d] : d \in ObjectInputs}

AuthorizationInputs == {<<>>, <<"Bearer ">>, <<"Bearer ", "sk-user">>}

RequestInputs == [body : BodyInputs, Authorization : AuthorizationInputs]

UpstreamJsonInputs ==
    {[choices |-> <<[message |-> [content |-> "hello"], finish_reason |-> "stop"]>>],
     [choices |-> <<>>]}

UpstreamContentInputs ==
    {[is_json |-> FALSE, text |-> "<html>"]}
    \cup {[is_json |-> TRUE, json |-> j] : j \in UpstreamJsonInputs}

StatusInputs == {200, 304, 429}

\* what requests.post() does: raise a transport error, or return a response
UpstreamInputs ==
    {[kind |-> "exception", raised |-> e] : e \in {"Timeout", "ConnectionError"}}
    \cup {[kind |-> "response", status_code |-> c, content |-> b] :
              c \in StatusInputs, b \in UpstreamContentInputs}

EnvInputs ==
    {[k \in EnvKeys |-> <<>>],
     [k \in EnvKeys |-> <<"sk-env">>],
     [k \in EnvKeys |-> IF k = "GEMINI_API_KEY" THEN <<"sk-env">> ELSE <<>>]}

(***************************************************************************)
(* proxy_handler, lines 103-154, and the two provider clients              *)
(***************************************************************************)
\* request.get_json(), line 107: the outcomes flask can produce for a body
get_json(body) ==
    CASE body.kind = "malformed" -> {Raised("BadRequest")}
      [] body.kind = "absent" -> {Raised("BadRequest"), Returned([kind |-> "falsy"])}
      [] OTHER -> {Returned(body)}

\* line 112
provider_of(client_data) == str_lower(dict_pop_value(client_data, "provider", s_gemini))

\* line 113
user_api_key_of(request) == strip_bearer(request.Authorization)

\* lines 47 and 89: user_api_key if user_api_key else os.getenv(env_key)
resolve_api_key_env_first(user_api_key, env_key) ==
    IF getenv(env_key) # <<>> THEN getenv(env_key) ELSE user_api_key

resolve_api_key(user_api_key, env_key) ==
    IF user_api_key # <<>> THEN user_api_key ELSE getenv(env_key)

\* lines 48 and 90: not api_key
api_key_missing_never(api_key) == FALSE

api_key_missing(api_key) == api_key = <<>>

\* response.raise_for_status(), lines 74 and 98
raises_for_status(status_code) == 400 <= status_code /\ status_code < 600

\* the except clauses, lines 146-154
except_handlers_all_500(exc) ==
    Response(500, ErrorBody(<<"Proxy internal error: ">> \o exc_str(exc)))

except_handlers(exc) ==
    IF exc.raised = "HTTPError"
    THEN IF exc.response.content.is_json
         THEN Response(exc.response.status_code, exc.response.content.json)
         ELSE Response(exc.response.status_code, ErrorBody(<<exc.response.content.text>>))
    ELSE Response(500, ErrorBody(<<"Proxy internal error: ">> \o exc_str(exc)))

\* What a stretch of handler code ends in: a return statement of proxy_handler,
\* time.sleep(), or requests.post()
StepReturn(value) == [kind |-> "return", response |-> value]

StepSleep(until) == [kind |-> "sleep", until |-> until]

StepCall(call) == [kind |-> "call", call |-> call]

\* lines 55-60
openai_payload(client_data, messages) ==
    [model |-> dict_get(client_data, "modelName", "default-model"),
     messages |-> messages,
     temperature |-> dict_get(dict_get(client_data, "generationConfig", EmptyDict),
                              "temperature", "0.7"),
     max_tokens |-> dict_get(dict_get(client_data, "generationConfig", EmptyDict),
                             "maxOutputTokens", 4096)]

\* handle_openai_compatible up to requests.post(), lines 47-73
openai_before_call(client_data, user_api_key, provider_name, env_key) ==
    LET api_key == resolve_api_key(user_api_key, env_key)
        openai_messages == transform_to_openai_format(client_data)
    IN  IF api_key_missing(api_key)
        THEN StepReturn(except_handlers(RaisedWith("ValueError",
                 <<provider_name, " API key is missing.">>)))
        ELSE IF openai_messages.raised # "none"
        THEN StepReturn(except_handlers(openai_messages))
        ELSE StepCall([provider |-> provider_name, api_key |-> api_key,
                       json |-> openai_payload(client_data, openai_messages.value)])

\* handle_openai_compatible from the return of requests.post(), lines 73-76
openai_after_call(upstream) ==
    IF upstream.kind = "exception" THEN except_handlers(Raised(upstream.raised))
    ELSE IF raises_for_status(upstream.status_code)
    THEN except_handlers([raised |-> "HTTPError", response |-> upstream])
    ELSE IF ~upstream.content.is_json THEN except_handlers(Raised("JSONDecodeError"))
    ELSE LET translated == transform_to_gemini_format(upstream.content.json)
         IN  IF translated.raised # "none" THEN except_handlers(translated)
             ELSE Response(200, translated.value)

\* lines 82-86: how long handle_gemini_request sleeps
gemini_sleep_time(clock, last) ==
    LET elapsed_time == clock - last
    IN  IF elapsed_time < GEMINI_REQUEST_DELAY
        THEN GEMINI_REQUEST_DELAY - elapsed_time
        ELSE 0

\* handle_gemini_request after the limiter up to requests.post(), lines 89-97
gemini_before_call_keeps_model_name(client_data, user_api_key) ==
    LET api_key == resolve_api_key(user_api_key, "GEMINI_API_KEY")
    IN  IF api_key_missing(api_key)
        THEN StepReturn(except_handlers(RaisedWith("ValueError",
                 <<"Gemini", " API key is missing.">>)))
        ELSE StepCall([provider |-> "Gemini", api_key |-> api_key,
                       model_name |-> dict_get(client_data, "modelName",
                                               "gemini-1.5-flash-latest"),
                       json |-> client_data])

gemini_before_call(client_data, user_api_key) ==
    LET api_key == resolve_api_key(user_api_key, "GEMINI_API_KEY")
    IN  IF api_key_missing(api_key)
        THEN StepReturn(except_handlers(RaisedWith("ValueError",
                 <<"Gemini", " API key is missing.">>)))
        ELSE StepCall([provider |-> "Gemini", api_key |-> api_key,
                       model_name |-> dict_pop_value(client_data, "modelName",
                                                     "gemini-1.5-flash-latest"),
                       json |-> dict_pop_rest(client_data, "modelName")])

\* line 100 is reached: requests.post() returned and raise_for_status() did not raise
gemini_records_time_always(upstream) == TRUE

gemini_records_time(upstream) ==
    upstream.kind = "response" /\ ~raises_for_status(upstream.status_code)

\* handle_gemini_request from the return of requests.post(), lines 97-101
gemini_after_call(upstream) ==
    IF upstream.kind = "exception" THEN except_handlers(Raised(upstream.raised))
    ELSE IF raises_for_status(upstream.status_code)
    THEN except_handlers([raised |-> "HTTPError", response |-> upstream])
    ELSE IF ~upstream.content.is_json THEN except_handlers(Raised("JSONDecodeError"))
    ELSE Response(200, upstream.content.json)

\* the if/elif chain of lines 117-144
route_default_gemini(provider) ==
    IF provider = s_llmost THEN "llmost"
    ELSE IF provider = s_openrouter THEN "openrouter"
    ELSE "gemini"

route_openrouter_rate_limited(provider) ==
    IF provider = s_llmost THEN "llmost"
    ELSE IF provider = s_openrouter THEN "gemini"
    ELSE IF provider = s_gemini THEN "gemini"
    ELSE "unsupported"

route(provider) ==
    IF provider = s_llmost THEN "llmost"
    ELSE IF provider = s_openrouter THEN "openrouter"
    ELSE IF provider = s_gemini THEN "gemini"
    ELSE "unsupported"

\* proxy_handler from get_json() to the first point where it blocks or returns,
\* lines 107-144; parsed is what get_json() did
handler_before_blocking(request, parsed, clock, last) ==
    IF parsed.raised # "none" THEN StepReturn(except_handlers(parsed))
    ELSE IF parsed.value.kind = "falsy"
    THEN StepReturn(Response(400, ErrorBody(<<"Invalid JSON body">>)))
    ELSE IF parsed.value.kind = "nondict"
    THEN StepReturn(except_handlers(Raised("AttributeError")))
    ELSE LET provider == provider_of(parsed.value.json)
             client_data == dict_pop_rest(parsed.value.json, "provider")
             user_api_key == user_api_key_of(request)
         IN  IF route(provider) = "llmost"
             THEN openai_before_call(client_data, user_api_key, "LLMost", "LLMOST_API_KEY")
             ELSE IF route(provider) = "openrouter"
             THEN openai_before_call(client_data, user_api_key, "OpenRouter",
                                     "OPENROUTER_API_KEY")
             ELSE IF route(provider) = "gemini"
             THEN IF gemini_sleep_time(clock, last) > 0
                  THEN StepSleep(clock + gemini_sleep_time(clock, last))
                  ELSE gemini_before_call(client_data, user_api_key)
             ELSE StepReturn(Response(400, ErrorBody(<<"Unsupported provider: ">> \o provider)))

(***************************************************************************)
(* State and actions of the server                                         *)
(***************************************************************************)
NoUpstream == [kind |-> "none"]
NoStart == 0 - 1

\* threading.Lock: acquire() succeeds only when nobody holds the lock
lock_free_always(lock) == TRUE

lock_free(lock) == lock = NoHolder

\* leaving the with block of line 105 with the handler's return value
with_exit_leak_on_error(lock, value) ==
    IF value.status >= 400 THEN lock ELSE NoHolder

with_exit_keeps_lock(lock, value) == lock

with_exit(lock, value) == NoHolder

\* the outbound call of thread t
call_of(t) == CHOOSE c \in in_flight : c.thread = t

\* Thread t goes on to what its stretch of code ended in
Apply(t, step) ==
    /\ pc' = [pc EXCEPT ![t] = step.kind]
    /\ wake' = [wake EXCEPT ![t] = IF step.kind = "sleep" THEN step.until ELSE 0]
    /\ response' = [response EXCEPT ![t] = IF step.kind = "return" THEN step.response
                                           ELSE NoResponse]
    /\ in_flight' =
           IF step.kind = "call"
           THEN in_flight \cup {[thread |-> t, call |-> step.call]}
           ELSE {c \in in_flight : c.thread # t}
    /\ calls' = [calls EXCEPT ![t] = IF step.kind = "call" THEN @ + 1 ELSE @]
    /\ gemini_last_start' =
           IF step.kind = "call" /\ step.call.provider = "Gemini"
           THEN now
           ELSE gemini_last_start

Init ==
    /\ pc = [t \in Threads |-> "idle"]
    /\ api_lock = NoHolder
    /\ last_gemini_request_time = 0
    /\ now = 0
    /\ env \in EnvInputs
    /\ req = [t \in Threads |-> NoRequest]
    /\ wake = [t \in Threads |-> 0]
    /\ got = [t \in Threads |-> NoUpstream]
    /\ response = [t \in Threads |-> NoResponse]
    /\ in_flight = {}
    /\ calls = [t \in Threads |-> 0]
    /\ gemini_last_start = NoStart
    /\ tr_fn = "none"
    /\ tr_in = EmptyDict
    /\ tr_out = NotApplied

\* a request for /api/proxy reaches worker thread t, which blocks at line 105
Arrive(t) ==
    /\ pc[t] = "idle"
    /\ pc' = [pc EXCEPT ![t] = "lock"]
    /\ UNCHANGED <<api_lock, last_gemini_request_time, now, env, req, wake, got, response,
                   in_flight, calls, gemini_last_start>>
    /\ UNCHANGED trvars

\* with api_lock: the thread enters the handler body with its request
Acquire(t) ==
    /\ pc[t] = "lock"
    /\ lock_free(api_lock)
    /\ api_lock' = t
    /\ pc' = [pc EXCEPT ![t] = "run"]
    /\ \E request \in RequestInputs : req' = [req EXCEPT ![t] = request]
    /\ UNCHANGED <<last_gemini_request_time, now, env, wake, got, response,
                   in_flight, calls, gemini_last_start>>
    /\ UNCHANGED trvars

\* lines 106-144 up to the first sleep, outbound call or return statement
Dispatch_key_first(t) ==
    /\ pc[t] = "run"
    /\ \E parsed \in get_json(req[t].body) :
           IF /\ parsed.raised = "none"
              /\ parsed.value.kind = "object"
              /\ route(provider_of(parsed.value.json)) = "gemini"
              /\ api_key_missing(resolve_api_key(user_api_key_of(req[t]), "GEMINI_API_KEY"))
           THEN Apply(t, gemini_before_call(dict_pop_rest(parsed.value.json, "provider"),
                                            user_api_key_of(req[t])))
           ELSE Apply(t, handler_before_blocking(req[t], parsed, now,
                                                 last_gemini_request_time))
    /\ UNCHANGED <<api_lock, last_gemini_request_time, now, env, req, got>>
    /\ UNCHANGED trvars

Dispatch(t) ==
    /\ pc[t] = "run"
    /\ \E parsed \in get_json(req[t].body) :
           Apply(t, handler_before_blocking(req[t], parsed, now, last_gemini_request_time))
    /\ UNCHANGED <<api_lock, last_gemini_request_time, now, env, req, got>>
    /\ UNCHANGED trvars

\* time.sleep() returns, line 86, and handle_gemini_request goes on to line 97
WakeUp_records_time(t) ==
    /\ pc[t] = "sleep"
    /\ now >= wake[t]
    /\ Apply(t, gemini_before_call(dict_pop_rest(req[t].body.json, "provider"),
                                   user_api_key_of(req[t])))
    /\ last_gemini_request_time' = now
    /\ UNCHANGED <<api_lock, now, env, req, got>>
    /\ UNCHANGED trvars

WakeUp(t) ==
    /\ pc[t] = "sleep"
    /\ now >= wake[t]
    /\ Apply(t, gemini_before_call(dict_pop_rest(req[t].body.json, "provider"),
                                   user_api_key_of(req[t])))
    /\ UNCHANGED <<api_lock, last_gemini_request_time, now, env, req, got>>
    /\ UNCHANGED trvars

\* requests.post() returns or raises, lines 73-76 and 97-101, up to the return statement
CallReturn_retries_on_error(t) ==
    /\ pc[t] = "call"
    /\ \E upstream \in UpstreamInputs :
           /\ got' = [got EXCEPT ![t] = upstream]
           /\ IF upstream.kind = "exception"
              THEN /\ Apply(t, StepCall(call_of(t).call))
                   /\ UNCHANGED last_gemini_request_time
              ELSE IF call_of(t).call.provider = "Gemini"
              THEN /\ Apply(t, StepReturn(gemini_after_call(upstream)))
                   /\ last_gemini_request_time' =
                          IF gemini_records_time(upstream) THEN now
                          ELSE last_gemini_request_time
              ELSE /\ Apply(t, StepReturn(openai_after_call(upstream)))
                   /\ UNCHANGED last_gemini_request_time
    /\ UNCHANGED <<api_lock, now, env, req>>
    /\ UNCHANGED trvars

CallReturn_records_duration(t) ==
    /\ pc[t] = "call"
    /\ \E upstream \in UpstreamInputs :
           /\ got' = [got EXCEPT ![t] = upstream]
           /\ IF call_of(t).call.provider = "Gemini"
              THEN /\ Apply(t, StepReturn(gemini_after_call(upstream)))
                   /\ last_gemini_request_time' =
                          IF gemini_records_time(upstream) THEN now - gemini_last_start
                          ELSE last_gemini_request_time
              ELSE /\ Apply(t, StepReturn(openai_after_call(upstream)))
                   /\ UNCHANGED last_gemini_request_time
    /\ UNCHANGED <<api_lock, now, env, req>>
    /\ UNCHANGED trvars

CallReturn(t) ==
    /\ pc[t] = "call"
    /\ \E upstream \in UpstreamInputs :
           /\ got' = [got EXCEPT ![t] = upstream]
           /\ IF call_of(t).call.provider = "Gemini"
              THEN /\ Apply(t, StepReturn(gemini_after_call(upstream)))
                   /\ last_gemini_request_time' =
                          IF gemini_records_time(upstream) THEN now
                          ELSE last_gemini_request_time
              ELSE /\ Apply(t, StepReturn(openai_after_call(upstream)))
                   /\ UNCHANGED last_gemini_request_time
    /\ UNCHANGED <<api_lock, now, env, req>>
    /\ UNCHANGED trvars

\* the handler's return value leaves the with block, line 105: the lock is released
\* and the response goes to the client
Exit(t) ==
    /\ pc[t] = "return"
    /\ api_lock' = with_exit(api_lock, response[t])
    /\ pc' = [pc EXCEPT ![t] = "idle"]
    /\ req' = [req EXCEPT ![t] = NoRequest]
    /\ got' = [got EXCEPT ![t] = NoUpstream]
    /\ response' = [response EXCEPT ![t] = NoResponse]
    /\ calls' = [calls EXCEPT ![t] = 0]
    /\ UNCHANGED <<last_gemini_request_time, now, env, wake, in_flight, gemini_last_start>>
    /\ UNCHANGED trvars

\* the monotonic clock advances
Tick ==
    /\ now < MaxTime
    /\ now' = now + 1
    /\ UNCHANGED <<pc, api_lock, last_gemini_request_time, env, req, wake, got, response,
                   in_flight, calls, gemini_last_start>>
    /\ UNCHANGED trvars

Next ==
    \/ \E t \in Threads : Arrive(t)
    \/ \E t \in Threads : Acquire(t)
    \/ \E t \in Threads : Dispatch(t)
    \/ \E t \in Threads : WakeUp(t)
    \/ \E t \in Threads : CallReturn(t)
    \/ \E t \in Threads : Exit(t)
    \/ Tick

Spec == Init /\ [][Next]_vars

(***************************************************************************)
(* The translator on its own                                               *)
(***************************************************************************)
InitTranslate ==
    /\ pc = [t \in Threads |-> "idle"]
    /\ api_lock = NoHolder
    /\ last_gemini_request_time = 0
    /\ now = 0
    /\ env = [k \in EnvKeys |-> <<>>]
    /\ req = [t \in Threads |-> NoRequest]
    /\ wake = [t \in Threads |-> 0]
    /\ got = [t \in Threads |-> NoUpstream]
    /\ response = [t \in Threads |-> NoResponse]
    /\ in_flight = {}
    /\ calls = [t \in Threads |-> 0]
    /\ gemini_last_start = NoStart
    /\ tr_out = NotApplied
    /\ \/ tr_fn = "transform_to_openai_format" /\ tr_in \in ClientDataInputs
       \/ tr_fn = "transform_to_gemini_format" /\ tr_in \in OpenAIResponseInputs

NextTranslate == ApplyToOpenAI \/ ApplyToGemini

SpecTranslate == InitTranslate /\ [][NextTranslate]_vars

(***************************************************************************)
(* Properties of the server, checked under Spec                            *)
(***************************************************************************)

\* C1: at most one outbound provider call is in flight at any instant, whatever
\* the providers of the concurrent requests: no two handlers are both between the
\* start and the end of requests.post().
C1_OneCallInFlight ==
    /\ Cardinality(in_flight) <= 1
    /\ Cardinality({t \in Threads : pc[t] = "call"}) <= 1

\* a call is in flight while another request waits for the lock
C1_Witness ==
    \E t, u \in Threads : pc[t] = "call" /\ pc[u] = "lock" /\ in_flight # {}

\* C2: the lock is released on every exit path: a thread that is not inside the
\* handler does not hold api_lock, and the lock is held only by a thread inside.
C2_LockReleasedOnExit ==
    /\ \A t \in Threads : pc[t] \in {"idle", "lock"} => api_lock # t
    /\ api_lock # NoHolder => pc[api_lock] \in {"run", "sleep", "call", "return"}

\* every handler has left, the last Gemini call failed (it started and the
\* timestamp was never written), and the lock is free
C2_Witness ==
    /\ \A t \in Threads : pc[t] = "idle"
    /\ gemini_last_start # NoStart
    /\ last_gemini_request_time = 0
    /\ api_lock = NoHolder

\* C3: an outbound Gemini call starts at least GEMINI_REQUEST_DELAY after the
\* start of the outbound Gemini call before it.
C3_GeminiCallsSpaced ==
    [][\A t \in Threads :
          (/\ pc[t] # "call"
           /\ pc'[t] = "call"
           /\ \E c \in in_flight' : c.thread = t /\ c.call.provider = "Gemini"
           /\ gemini_last_start # NoStart)
          => now - gemini_last_start >= GEMINI_REQUEST_DELAY]_vars

\* C4: a request whose lowercased provider is none of gemini, openrouter, llmost
\* makes no outbound call and returns status 400 with a message that contains the
\* provider name.
C4_UnknownProvider ==
    \A t \in Threads :
        (/\ req[t].body.kind = "object"
         /\ provider_of(req[t].body.json) \notin {s_gemini, s_openrouter, s_llmost})
        => /\ calls[t] = 0
           /\ pc[t] \notin {"sleep", "call"}
           /\ pc[t] = "return" =>
                  /\ response[t].status = 400
                  /\ "error" \in DOMAIN response[t].body
                  /\ LET message == response[t].body.error.message
                         name == provider_of(req[t].body.json)
                     IN  \E i \in 1..Len(message) :
                             /\ i + Len(name) - 1 <= Len(message)
                             /\ SubSeq(message, i, i + Len(name) - 1) = name

C4_Witness ==
    \E t \in Threads :
        /\ pc[t] = "return"
        /\ req[t].body.kind = "object"
        /\ provider_of(req[t].body.json) = s_unknown_llm
        /\ response[t].status = 400

\* C5: for gemini, openrouter and llmost alike, a request with no caller key whose
\* provider has no environment key makes no outbound call and returns the
\* missing-key error.
C5_MissingCredential ==
    \A t \in Threads :
        (/\ req[t].body.kind = "object"
         /\ strip_bearer(req[t].Authorization) = <<>>
         /\ \/ /\ provider_of(req[t].body.json) = s_gemini
               /\ env["GEMINI_API_KEY"] = <<>>
            \/ /\ provider_of(req[t].body.json) = s_openrouter
               /\ env["OPENROUTER_API_KEY"] = <<>>
            \/ /\ provider_of(req[t].body.json) = s_llmost
               /\ env["LLMOST_API_KEY"] = <<>>)
        => /\ calls[t] = 0
           /\ pc[t] # "call"
           /\ pc[t] = "return" =>
                  /\ response[t].status = 500
                  /\ "error" \in DOMAIN response[t].body
                  /\ Len(response[t].body.error.message) = 3
                  /\ response[t].body.error.message[3] = " API key is missing."

\* a Gemini request without any key has slept in the limiter and returned the error
C5_Witness ==
    \E t \in Threads :
        /\ pc[t] = "return"
        /\ req[t].body.kind = "object"
        /\ provider_of(req[t].body.json) = s_gemini
        /\ strip_bearer(req[t].Authorization) = <<>>
        /\ env["GEMINI_API_KEY"] = <<>>
        /\ response[t].status = 500
        /\ calls[t] = 0

C7_InvalidBodyIs400 ==
    \A t \in Threads :
        req[t].body.kind \in {"malformed", "absent", "falsy"}
        => /\ calls[t] = 0
           /\ pc[t] = "return" => response[t].status \in 400..499

(***************************************************************************)
(* Properties of the translator, checked under SpecTranslate               *)
(***************************************************************************)

\* C8: transform_to_openai_format returns one message per turn, at the turn's
\* index, with role "assistant" for a turn of role "model" and "user" for any
\* other or absent role, and with the turn's first text as content.
C8_RolesAndOrder ==
    (tr_fn = "transform_to_openai_format" /\ tr_out.raised = "none")
    => LET contents == dict_get(tr_in, "contents", <<>>)
       IN  /\ Len(tr_out.value) = Len(contents)
           /\ \A i \in 1..Len(contents) :
                  /\ tr_out.value[i].role =
                         IF "role" \in DOMAIN contents[i] /\ contents[i].role = "model"
                         THEN "assistant" ELSE "user"
                  /\ ("parts" \in DOMAIN contents[i] /\ Len(contents[i].parts) > 0
                          /\ "text" \in DOMAIN contents[i].parts[1])
                     => tr_out.value[i].content = contents[i].parts[1].text

\* two turns, the first of role "model", the second without a role
C8_Witness ==
    /\ tr_fn = "transform_to_openai_format"
    /\ tr_out.raised = "none"
    /\ Len(tr_out.value) = 2
    /\ "role" \in DOMAIN tr_in.contents[1]
    /\ tr_in.contents[1].role = "model"
    /\ "role" \notin DOMAIN tr_in.contents[2]
    /\ tr_out.value[1].role = "assistant"
    /\ tr_out.value[2].role = "user"

\* C9: transform_to_openai_format returns for every request, and the content of a
\* turn whose parts are absent or an empty list is the empty string.
C9_OpenAINeverFails ==
    (tr_fn = "transform_to_openai_format" /\ tr_out # NotApplied)
    => /\ tr_out.raised = "none"
       /\ LET contents == dict_get(tr_in, "contents", <<>>)
          IN  \A i \in 1..Len(contents) :
                  ("parts" \notin DOMAIN contents[i] \/ Len(contents[i].parts) = 0)
                  => tr_out.value[i].content = ""

\* C10: transform_to_gemini_format returns for every upstream JSON: one candidate,
\* with text "" and finishReason "STOP" where choices, the first choice's message,
\* content or finish_reason is missing.
C10_GeminiNeverFails ==
    (tr_fn = "transform_to_gemini_format" /\ tr_out # NotApplied)
    => /\ tr_out.raised = "none"
       /\ Len(tr_out.value.candidates) = 1
       /\ ("choices" \notin DOMAIN tr_in \/ Len(tr_in.choices) = 0)
          => /\ tr_out.value.candidates[1].content.parts[1].text = ""
             /\ tr_out.value.candidates[1].finishReason = "STOP"

\* C11 as stated: the body of an outbound Gemini call is the inbound body without
\* the provider field and with every other field unchanged, and an upstream
\* success comes back as the upstream JSON.
C11_ForwardedMinusProvider ==
    /\ \A c \in in_flight :
           c.call.provider = "Gemini"
           => c.call.json = [k \in DOMAIN req[c.thread].body.json \ {"provider"} |->
                                 req[c.thread].body.json[k]]
    /\ \A t \in Threads :
           (/\ pc[t] = "return"
            /\ calls[t] = 1
            /\ provider_of(req[t].body.json) = s_gemini
            /\ got[t].kind = "response"
            /\ got[t].status_code \in 200..299
            /\ got[t].content.is_json)
           => response[t] = Response(200, got[t].content.json)

\* C11, amended: the body of an outbound Gemini call is the inbound body without
\* the provider and modelName fields and with every other field unchanged (the
\* model name goes into the URL), and an upstream success comes back as the
\* upstream JSON.
C11_ForwardedMinusProviderAndModel ==
    /\ \A c \in in_flight :
           c.call.provider = "Gemini"
           => /\ c.call.json =
                     [k \in DOMAIN req[c.thread].body.json \ {"provider", "modelName"} |->
                          req[c.thread].body.json[k]]
              /\ c.call.json.contents = req[c.thread].body.json.contents
              /\ c.call.model_name =
                     IF "modelName" \in DOMAIN req[c.thread].body.json
                     THEN req[c.thread].body.json.modelName
                     ELSE "gemini-1.5-flash-latest"
    /\ \A t \in Threads :
           (/\ pc[t] = "return"
            /\ calls[t] = 1
            /\ provider_of(req[t].body.json) = s_gemini
            /\ got[t].kind = "response"
            /\ got[t].status_code \in 200..299
            /\ got[t].content.is_json)
           => response[t] = Response(200, got[t].content.json)

\* a Gemini request that named its model is in flight
C11_Witness ==
    \E c \in in_flight :
        /\ c.call.provider = "Gemini"
        /\ "modelName" \in DOMAIN req[c.thread].body.json
        /\ "provider" \in DOMAIN req[c.thread].body.json
        /\ "contents" \in DOMAIN c.call.json

\* C12: for every provider the key of the outbound call is the caller's key (the
\* Authorization header without its "Bearer " prefix) when that is not empty, and
\* the provider's environment key only when the caller gave none.
C12_CallerKeyFirst ==
    \A c \in in_flight :
        LET header == req[c.thread].Authorization
            caller_key == IF header # <<>> /\ Head(header) = "Bearer "
                          THEN Tail(header) ELSE header
            env_key == CASE c.call.provider = "Gemini" -> env["GEMINI_API_KEY"]
                         [] c.call.provider = "OpenRouter" -> env["OPENROUTER_API_KEY"]
                         [] c.call.provider = "LLMost" -> env["LLMOST_API_KEY"]
        IN  /\ c.call.api_key # <<>>
            /\ caller_key # <<>> => c.call.api_key = caller_key
            /\ caller_key = <<>> => c.call.api_key = env_key

\* a call is in flight with the caller's key although the environment has one too
C12_Witness ==
    \E c \in in_flight :
        /\ req[c.thread].Authorization = <<"Bearer ", "sk-user">>
        /\ c.call.api_key = <<"sk-user">>
        /\ env["GEMINI_API_KEY"] = <<"sk-env">>

\* C14: no retries: a request starts at most one outbound call, whatever that
\* call ends in.
C14_AtMostOneCall ==
    \A t \in Threads :
        /\ calls[t] <= 1
        /\ Cardinality({c \in in_flight : c.thread = t}) <= 1
        /\ pc[t] = "return" => Cardinality({c \in in_flight : c.thread = t}) = 0

\* a request whose only outbound call timed out has its error response
C14_Witness ==
    \E t \in Threads :
        /\ pc[t] = "return"
        /\ calls[t] = 1
        /\ got[t].kind = "exception"
        /\ response[t].status = 500

\* C15: last_gemini_request_time is written only by the thread that holds the
\* lock, and only for a gemini request; an openrouter or llmost request never
\* sleeps in the limiter.
C15_LimiterOnlyForGemini ==
    [][/\ \A t \in Threads :
              (/\ req'[t].body.kind = "object"
               /\ provider_of(req'[t].body.json) \in {s_openrouter, s_llmost})
              => pc'[t] # "sleep"
       /\ last_gemini_request_time' # last_gemini_request_time
          => /\ api_lock # NoHolder
             /\ api_lock' = api_lock
             /\ pc[api_lock] = "call"
             /\ provider_of(req[api_lock].body.json) = s_gemini]_vars

\* an openrouter call went out less than GEMINI_REQUEST_DELAY after a Gemini call
C15_Witness ==
    \E t \in Threads :
        /\ pc[t] = "call"
        /\ provider_of(req[t].body.json) = s_openrouter
        /\ last_gemini_request_time > 0
        /\ now - last_gemini_request_time < GEMINI_REQUEST_DELAY

\* C16: the limiter's elapsed-time check and wait do not write the timestamp; it
\* is written only by the step in which the request's outbound call returns.
C16_TimestampAfterCall ==
    [][/\ \A t \in Threads :
              (pc[t] \in {"run", "sleep"} /\ pc'[t] # pc[t])
              => last_gemini_request_time' = last_gemini_request_time
       /\ last_gemini_request_time' # last_gemini_request_time
          => \E t \in Threads :
                 /\ pc[t] = "call"
                 /\ calls[t] = 1
                 /\ pc'[t] = "return"
                 /\ last_gemini_request_time' = now]_vars

\* a second Gemini call is in flight and the timestamp is still that of the first
C16_Witness ==
    \E t \in Threads :
        /\ pc[t] = "call"
        /\ provider_of(req[t].body.json) = s_gemini
        /\ last_gemini_request_time > 0
        /\ gemini_last_start >= last_gemini_request_time + GEMINI_REQUEST_DELAY

\* C17: the client is chosen by the lowercased provider field alone: an absent
\* field and every spelling of gemini go to the Gemini client, every spelling of
\* openrouter and llmost to theirs; the field is not forwarded; a request goes to
\* at most one client.
C17_RoutedByLowercasedProvider ==
    \A t \in Threads :
        req[t].body.kind = "object" =>
            LET raw == IF "provider" \in DOMAIN req[t].body.json
                       THEN req[t].body.json.provider ELSE s_gemini
                client == CASE raw \in {s_gemini, <<"G", "e", "m", "i", "n", "i">>}
                                   -> "Gemini"
                            [] raw = s_openrouter -> "OpenRouter"
                            [] raw \in {s_llmost, <<"L", "L", "M", "o", "s", "t">>}
                                   -> "LLMost"
                            [] OTHER -> "none"
            IN  /\ \A c \in in_flight :
                       c.thread = t => /\ c.call.provider = client
                                       /\ "provider" \notin DOMAIN c.call.json
                /\ Cardinality({c \in in_flight : c.thread = t}) <= 1
                /\ pc[t] = "sleep" => client = "Gemini"
                /\ (pc[t] = "return" /\ client # "none")
                   => ~(/\ "error" \in DOMAIN response[t].body
                        /\ response[t].body.error.message[1] = "Unsupported provider: ")

\* a request for "LLMost" is with the LLMost client
C17_Witness ==
    \E c \in in_flight :
        /\ req[c.thread].body.json.provider = <<"L", "L", "M", "o", "s", "t">>
        /\ c.call.provider = "LLMost"

\* C18 as stated: only an outbound call that returned a 2xx response writes the
\* timestamp.
C18_Only2xxUpdates ==
    [][last_gemini_request_time' # last_gemini_request_time
       => \E t \in Threads :
              /\ pc'[t] = "return"
              /\ got'[t].kind = "response"
              /\ got'[t].status_code \in 200..299]_vars

\* C18, amended: a gemini request whose call raised (4xx or 5xx, timeout,
\* connection failure) or was never made leaves the timestamp unchanged; a call
\* whose response has any other status writes it.
C18_FailedCallKeepsTimestamp ==
    [][\A t \in Threads :
          (/\ req[t].body.kind = "object"
           /\ provider_of(req[t].body.json) = s_gemini
           /\ pc[t] \in {"run", "sleep", "call"}
           /\ pc'[t] = "return")
          => IF /\ got'[t].kind = "response"
                /\ (got'[t].status_code < 400 \/ got'[t].status_code > 599)
             THEN last_gemini_request_time' = now
             ELSE last_gemini_request_time' = last_gemini_request_time]_vars

\* a Gemini call was answered 429 and the timestamp was never written
C18_Witness ==
    \E t \in Threads :
        /\ pc[t] = "return"
        /\ calls[t] = 1
        /\ provider_of(req[t].body.json) = s_gemini
        /\ got[t].kind = "response"
        /\ got[t].status_code = 429
        /\ last_gemini_request_time = 0

\* C19: last_gemini_request_time never decreases.
C19_TimestampMonotonic ==
    [][last_gemini_request_time' >= last_gemini_request_time]_vars

\* the timestamp was written after the delay had passed twice
C19_Witness ==
    /\ last_gemini_request_time >= 2 * GEMINI_REQUEST_DELAY
    /\ gemini_last_start # NoStart

\* C20: a gemini request that arrives less than GEMINI_REQUEST_DELAY after the
\* recorded instant sleeps the rest of the delay, holding the lock, before its key
\* is looked at: it neither calls nor returns the missing-key error earlier.
C20_WaitBeforeCredential ==
    [][\A t \in Threads :
          (/\ req[t].body.kind = "object"
           /\ provider_of(req[t].body.json) = s_gemini)
          => /\ (/\ pc[t] = "run"
                 /\ pc'[t] # "run"
                 /\ now - last_gemini_request_time < GEMINI_REQUEST_DELAY)
                => /\ pc'[t] = "sleep"
                   /\ api_lock' = t
                   /\ wake'[t] = last_gemini_request_time + GEMINI_REQUEST_DELAY
             /\ (pc[t] \in {"run", "sleep"} /\ pc'[t] \in {"call", "return"})
                => now - last_gemini_request_time >= GEMINI_REQUEST_DELAY]_vars

\* a gemini request without any key sleeps in the limiter, holding the lock
C20_Witness ==
    \E t \in Threads :
        /\ pc[t] = "sleep"
        /\ api_lock = t
        /\ strip_bearer(req[t].Authorization) = <<>>
        /\ env["GEMINI_API_KEY"] = <<>>
        /\ now < wake[t]

(***************************************************************************)
(* The server under fair scheduling.  Every thread inside the handler goes *)
(* on, every sleep ends, every outbound call returns or raises, and the    *)
(* lock is fair: a thread that is blocked on it again and again gets it.   *)
(* The clock is unbounded: once it has reached MaxTime, a further second   *)
(* moves every recorded instant one second back instead (the code only     *)
(* looks at differences between instants, and at no difference beyond      *)
(* GEMINI_REQUEST_DELAY).                                                  *)
(***************************************************************************)
FairRequestInputs ==
    {[body |-> [kind |-> "malformed"], Authorization |-> <<>>],
     [body |-> [kind |-> "object",
                json |-> [contents |-> <<[role |-> "user", parts |-> <<[text |-> "hi"]>>]>>]],
      Authorization |-> <<>>],
     [body |-> [kind |-> "object",
                json |-> [contents |-> <<[role |-> "user", parts |-> <<[text |-> "hi"]>>]>>]],
      Authorization |-> <<"Bearer ", "sk-user">>],
     [body |-> [kind |-> "object",
                json |-> [provider |-> s_openrouter,
                          contents |-> <<[role |-> "user", parts |-> <<[text |-> "hi"]>>]>>]],
      Authorization |-> <<"Bearer ", "sk-user">>]}

FairUpstreamInputs ==
    {[kind |-> "exception", raised |-> "Timeout"],
     [kind |-> "response", status_code |-> 200,
      content |-> [is_json |-> TRUE,
                   json |-> [choices |-> <<[message |-> [content |-> "hello"],
                                            finish_reason |-> "stop"]>>]]]}

one_second_back(instant) == IF instant > 0 THEN instant - 1 ELSE instant

TickFair ==
    IF now < MaxTime
    THEN Tick
    ELSE /\ last_gemini_request_time' = one_second_back(last_gemini_request_time)
         /\ wake' = [t \in Threads |-> one_second_back(wake[t])]
         /\ gemini_last_start' = one_second_back(gemini_last_start)
         /\ UNCHANGED <<pc, api_lock, now, env, req, got, response, in_flight, calls>>
         /\ UNCHANGED trvars

AcquireFair(t) == Acquire(t) /\ req'[t] \in FairRequestInputs

CallReturnFair(t) == CallReturn(t) /\ got'[t] \in FairUpstreamInputs

NextFair ==
    \/ \E t \in Threads : Arrive(t)
    \/ \E t \in Threads : AcquireFair(t)
    \/ \E t \in Threads : Dispatch(t)
    \/ \E t \in Threads : WakeUp(t)
    \/ \E t \in Threads : CallReturnFair(t)
    \/ \E t \in Threads : Exit(t)
    \/ TickFair

Fairness ==
    /\ WF_vars(TickFair)
    /\ \A t \in Threads :
           /\ SF_vars(AcquireFair(t))
           /\ WF_vars(Dispatch(t))
           /\ WF_vars(WakeUp(t))
           /\ WF_vars(CallReturnFair(t))
           /\ WF_vars(Exit(t))

\* no provider key in the environment: a request goes out with its caller's key
\* or fails for want of one
InitFair == Init /\ env = [k \in EnvKeys |-> <<>>]

SpecFair == InitFair /\ [][NextFair]_vars /\ Fairness

\* C13: with a fair lock and outbound calls that return or raise, every request
\* that has arrived ends with its thread out of the handler and not holding the
\* lock; none waits for the lock or sleeps in the limiter for ever.
C13_EveryRequestTerminates ==
    \A t \in Threads :
        (pc[t] \in {"lock", "run", "sleep", "call", "return"})
            ~> (pc[t] = "idle" /\ api_lock # t)

\* one request waits for the lock while another sleeps in the limiter
C13_Witness ==
    \E t, u \in Threads : pc[t] = "lock" /\ pc[u] = "sleep" /\ now < wake[u]
====
